---- MODULE Spec2Model ----
(***************************************************************************)
(* Answer-routing and multi-source aggregation pipeline of the ai-server   *)
(* (business/chatbot.py, models/schemas.py, services/*.py).                *)
(*                                                                         *)
(* Python values are represented as follows.                               *)
(*   str used as prose     a sequence of tokens (Text); " " and "\n" are   *)
(*                         the whitespace tokens that str.strip() removes  *)
(*   Optional[str] None    the one-token sequence NoneText                 *)
(*   exception             its message, a string; NoExc when none          *)
(*   Optional[int] None    NoneInt                                         *)
(*   ChatbotUsageLog       a record; None is NoneLog                       *)
(***************************************************************************)
EXTENDS Integers, Sequences, FiniteSets, TLC

\* ------------------------------------------------------------------ bounds
\* longest source list the routing model is made to return (the schema
\* accepts at most MaxSourcesLen, so one more exercises the rejection)
MaxRawLen == 4
\* longest source list handed directly to _execute_answer_sources
MaxExecLen == 3
\* number of add_usage / merge steps driven on the free-standing usage logs
MaxUsageOps == 3

\* ------------------------------------------------------- program constants
MinSourcesLen == 1
MaxSourcesLen == 3

NoneText == << "<None>" >>
NoneInt == -1
NoExc == "<no exception>"
NoneStr == "<None>"
NoneLog == [none |-> TRUE]

Tags == {"database", "document", "casual"}
HeavyTags == {"database", "document"}

\* ------------------------------------------------------------------- text
Whitespace == {" ", "\n"}

RECURSIVE LStrip(_)
LStrip(t) ==
  IF t = <<>> THEN <<>>
  ELSE IF Head(t) \in Whitespace THEN LStrip(Tail(t)) ELSE t

RECURSIVE RStrip(_)
RStrip(t) ==
  IF t = <<>> THEN <<>>
  ELSE IF t[Len(t)] \in Whitespace THEN RStrip(SubSeq(t, 1, Len(t) - 1)) ELSE t

\* str.strip()
Strip(t) == RStrip(LStrip(t))

\* Python truthiness of an Optional[str]
TruthyText(t) == t # NoneText /\ t # <<>>

\* (x or "")
OrEmpty(t) == IF TruthyText(t) THEN t ELSE <<>>

\* sep.join(parts)
RECURSIVE Join(_, _)
Join(sep, parts) ==
  IF parts = <<>> THEN <<>>
  ELSE IF Len(parts) = 1 THEN parts[1]
  ELSE parts[1] \o sep \o Join(sep, Tail(parts))

SeqToSet(s) == {s[i] : i \in 1..Len(s)}

\* [x for x in s if keep(x)]
RECURSIVE Filter(_, _)
Filter(s, keepSet) ==
  IF s = <<>> THEN <<>>
  ELSE IF Head(s) \in keepSet THEN <<Head(s)>> \o Filter(Tail(s), keepSet)
  ELSE Filter(Tail(s), keepSet)

\* all sequences over S of length lo..hi
SeqsUpTo(S, lo, hi) == UNION {[1..n -> S] : n \in lo..hi}

\* ------------------------------------------------------------- usage logs
ModelUsage(model, prompt_tokens, completion_tokens, total_tokens, cost, response_time_ms) ==
  [model |-> model, prompt_tokens |-> prompt_tokens,
   completion_tokens |-> completion_tokens, total_tokens |-> total_tokens,
   cost |-> cost, response_time_ms |-> response_time_ms]

\* ChatbotUsageLog()
ChatbotUsageLog ==
  [model_usages |-> <<>>, total_tokens |-> 0, total_cost |-> 0,
   total_response_time_ms |-> 0, log_type |-> "info", status |-> "success",
   message |-> NoneStr]

\* ChatbotUsageLog.create_error_log(message)
create_error_log(message) ==
  [ChatbotUsageLog EXCEPT !.log_type = "error", !.status = "error",
                          !.message = message]

\* add_usage with the cost total left out
add_usage_no_cost(log, u) ==
  [log EXCEPT !.model_usages = Append(@, u),
              !.total_tokens = @ + u.total_tokens,
              !.total_response_time_ms = @ + u.response_time_ms]

\* ChatbotUsageLog.add_usage: append the entry, then add to the three totals
add_usage(log, u) ==
  [log EXCEPT !.model_usages = Append(@, u),
              !.total_tokens = @ + u.total_tokens,
              !.total_cost = @ + u.cost,
              !.total_response_time_ms = @ + u.response_time_ms]

RECURSIVE AddAll(_, _)
AddAll(target, usages) ==
  IF usages = <<>> THEN target
  ELSE AddAll(add_usage(target, Head(usages)), Tail(usages))

\* _update_usage_log carrying an error status over to the target
update_usage_log_with_status(target, source) ==
  IF target = NoneLog \/ source = NoneLog THEN target
  ELSE LET merged == AddAll(target, source.model_usages)
       IN IF source.status = "error"
          THEN [merged EXCEPT !.status = "error", !.log_type = "error",
                              !.message = source.message]
          ELSE merged

\* _update_usage_log putting the source's entries first
update_usage_log_source_first(target, source) ==
  IF target = NoneLog \/ source = NoneLog THEN target
  ELSE [target EXCEPT !.model_usages = source.model_usages \o @,
                      !.total_tokens = @ + source.total_tokens,
                      !.total_cost = @ + source.total_cost,
                      !.total_response_time_ms = @ + source.total_response_time_ms]

\* Chatbot._update_usage_log(target, source): the value of target afterwards
\* (source is only read)
update_usage_log(target, source) ==
  IF target = NoneLog \/ source = NoneLog THEN target
  ELSE AddAll(target, source.model_usages)

RECURSIVE SumTokens(_)
SumTokens(us) == IF us = <<>> THEN 0 ELSE Head(us).total_tokens + SumTokens(Tail(us))
RECURSIVE SumCost(_)
SumCost(us) == IF us = <<>> THEN 0 ELSE Head(us).cost + SumCost(Tail(us))
RECURSIVE SumTime(_)
SumTime(us) == IF us = <<>> THEN 0 ELSE Head(us).response_time_ms + SumTime(Tail(us))

\* totals of a log agree with its entries
TotalsMatch(log) ==
  log = NoneLog \/
  (/\ log.total_tokens = SumTokens(log.model_usages)
   /\ log.total_cost = SumCost(log.model_usages)
   /\ log.total_response_time_ms = SumTime(log.model_usages))

\* ------------------------------------------------- OpenRouterService
RoutingModel == "meta-llama/llama-4-scout"
SynthesisModel == "meta-llama/llama-4-scout"

\* AgentResponse.content is a str; the routing call asks for a JSON object,
\* so a content is either a JSON document or prose.
JsonContent(doc) == [kind |-> "json", doc |-> doc]
TextContent(t) == [kind |-> "text", text |-> t]

\* what one HTTP exchange with the completion service can do:
\* answer (content + usage block) or fail (RequestException, bad payload)
HttpOk(content, usage) == [ok |-> TRUE, content |-> content, usage |-> usage]
HttpFail(err) == [ok |-> FALSE, err |-> err]

\* OpenRouterService.chat_completion / generate_text: never raises; on any
\* failure it returns an AgentResponse whose content is the error text and
\* records no usage.
chat_completion(http, usage_log, model) ==
  IF http.ok
  THEN [content |-> http.content,
        usage_log |-> IF usage_log = NoneLog THEN NoneLog
                      ELSE add_usage(usage_log,
                             ModelUsage(model, http.usage.prompt_tokens,
                                        http.usage.completion_tokens,
                                        http.usage.total_tokens, 0,
                                        http.usage.response_time_ms))]
  ELSE [content |-> TextContent(<<"Bir hata olustu: ", http.err>>),
        usage_log |-> usage_log]

\* --------------------------------------------- DetermineAnswerSourceResult
MissingField == << "<missing>" >>

\* model_validate_json: TRUE iff the content is a JSON object that conforms
\* (sources absent or 1..3 literals of the tag set, improved_question a
\* string); otherwise pydantic raises ValidationError
Validates(content) ==
  /\ content.kind = "json"
  /\ content.doc.improved_question # MissingField
  /\ \/ content.doc.sources = MissingField
     \/ /\ Len(content.doc.sources) >= MinSourcesLen
        /\ Len(content.doc.sources) <= MaxSourcesLen
        /\ SeqToSet(content.doc.sources) \subseteq Tags

\* the validated model: default_factory fills an absent sources field
Parsed(content) ==
  [sources |-> IF content.doc.sources = MissingField THEN <<"casual">>
               ELSE content.doc.sources,
   improved_question |-> content.doc.improved_question,
   casual_response |-> content.doc.casual_response]

\* prioritized_sources without the casual filter
prioritized_sources_unfiltered(sources) ==
  IF sources = <<>> THEN <<"casual">> ELSE sources

\* DetermineAnswerSourceResult.prioritized_sources
prioritized_sources(sources) ==
  LET prioritized == IF sources = <<>> THEN <<"casual">> ELSE sources
  IN IF Len(prioritized) > 1 /\ "casual" \in SeqToSet(prioritized)
     THEN LET kept == Filter(prioritized, Tags \ {"casual"})
          IN IF kept = <<>> THEN <<"casual">> ELSE kept
     ELSE prioritized

\* ---------------------------------------------------- plan_answer_route
Apology == << "Su anda isteginizi yerine getiremedim. Lutfen tekrar dener misiniz?" >>
ContextError == "'dict' object has no attribute 'role'"

\* Chatbot._serialize_context raises AttributeError exactly when the history
\* holds an entry without role/content attributes
serialize_context_raises(context) == context = "malformed"

\* the inner try block with document as the default source list
route_sources_document_default(content, mode) ==
  IF Validates(content)
  THEN LET normalized_sources == prioritized_sources(Parsed(content).sources)
           collapsed == IF mode = "support" /\ "casual" \in SeqToSet(normalized_sources)
                        THEN <<"casual">> ELSE normalized_sources
       IN IF collapsed # <<>> THEN collapsed ELSE <<"document">>
  ELSE <<"document">>

\* the source list after the inner try block of plan_answer_route
route_sources(content, mode) ==
  IF Validates(content)
  THEN LET normalized_sources == prioritized_sources(Parsed(content).sources)
           collapsed == IF mode = "support" /\ "casual" \in SeqToSet(normalized_sources)
                        THEN <<"casual">> ELSE normalized_sources
       IN IF collapsed # <<>> THEN collapsed ELSE <<"casual">>
  ELSE <<"casual">>

route_question(content, question) ==
  IF Validates(content)
  THEN LET cleaned_question == Strip(Parsed(content).improved_question)
       IN IF cleaned_question # <<>> THEN cleaned_question ELSE question
  ELSE question

\* casual_answer taken without trimming
route_casual_answer_unstripped(content) ==
  IF Validates(content)
  THEN LET text_response == OrEmpty(Parsed(content).casual_response)
       IN IF text_response # <<>> THEN text_response ELSE NoneText
  ELSE NoneText

\* casual_answer: None unless the parsed reply is non-blank
route_casual_answer(content) ==
  IF Validates(content)
  THEN LET text_response == Strip(OrEmpty(Parsed(content).casual_response))
       IN IF text_response # <<>> THEN text_response ELSE NoneText
  ELSE NoneText

\* the body of plan_answer_route using the casual reply whenever one came
plan_answer_route_try_eager_reply(question, context, mode, http) ==
  IF serialize_context_raises(context)
  THEN [kind |-> "raised", exc |-> ContextError]
  ELSE
    LET response == chat_completion(http, ChatbotUsageLog, RoutingModel)
        sources == route_sources(response.content, mode)
        casual_answer == route_casual_answer(response.content)
        requires_structured == SeqToSet(sources) \cap HeavyTags # {}
    IN [kind |-> "decision",
        sources |-> sources,
        question |-> IF requires_structured
                     THEN route_question(response.content, question)
                     ELSE question,
        usage_log |-> response.usage_log,
        immediate |-> IF TruthyText(casual_answer) THEN casual_answer
                      ELSE IF requires_structured THEN NoneText
                      ELSE Apology]

\* the body of plan_answer_route without the apology for a missing reply
plan_answer_route_try_no_apology(question, context, mode, http) ==
  IF serialize_context_raises(context)
  THEN [kind |-> "raised", exc |-> ContextError]
  ELSE
    LET response == chat_completion(http, ChatbotUsageLog, RoutingModel)
        sources == route_sources(response.content, mode)
        casual_answer == route_casual_answer(response.content)
        requires_structured == SeqToSet(sources) \cap HeavyTags # {}
    IN [kind |-> "decision",
        sources |-> sources,
        question |-> IF requires_structured
                     THEN route_question(response.content, question)
                     ELSE question,
        usage_log |-> response.usage_log,
        immediate |-> IF requires_structured THEN NoneText
                      ELSE OrEmpty(casual_answer)]

\* the body of plan_answer_route never giving an immediate answer
plan_answer_route_try_never_immediate(question, context, mode, http) ==
  IF serialize_context_raises(context)
  THEN [kind |-> "raised", exc |-> ContextError]
  ELSE
    LET response == chat_completion(http, ChatbotUsageLog, RoutingModel)
        sources == route_sources(response.content, mode)
    IN [kind |-> "decision",
        sources |-> sources,
        question |-> route_question(response.content, question),
        usage_log |-> response.usage_log,
        immediate |-> NoneText]

\* the body of plan_answer_route's outer try block (lines 119-176) as a
\* function of its inputs and of what the completion service does: the
\* returned 4-tuple, or the exception that leaves the block
plan_answer_route_try(question, context, mode, http) ==
  IF serialize_context_raises(context)
  THEN [kind |-> "raised", exc |-> ContextError]
  ELSE
    LET response == chat_completion(http, ChatbotUsageLog, RoutingModel)
        sources == route_sources(response.content, mode)
        casual_answer == route_casual_answer(response.content)
        requires_structured == SeqToSet(sources) \cap HeavyTags # {}
    IN [kind |-> "decision",
        sources |-> sources,
        question |-> IF requires_structured
                     THEN route_question(response.content, question)
                     ELSE question,
        usage_log |-> response.usage_log,
        immediate |-> IF requires_structured THEN NoneText
                      ELSE IF TruthyText(casual_answer) THEN casual_answer
                      ELSE Apology]

\* plan_answer_route without its except branch
plan_answer_route_uncaught(question, context, mode, http) ==
  plan_answer_route_try(question, context, mode, http)

\* plan_answer_route whose except branch falls back to casual
plan_answer_route_casual_default(question, context, mode, http) ==
  LET r == plan_answer_route_try(question, context, mode, http)
  IN IF r.kind = "raised"
     THEN [kind |-> "decision", sources |-> <<"casual">>, question |-> question,
           usage_log |-> create_error_log(r.exc), immediate |-> NoneText]
     ELSE r

\* Chatbot.plan_answer_route: the except branch (lines 178-186) turns any
\* exception into the document default
plan_answer_route(question, context, mode, http) ==
  LET r == plan_answer_route_try(question, context, mode, http)
  IN IF r.kind = "raised"
     THEN [kind |-> "decision", sources |-> <<"document">>, question |-> question,
           usage_log |-> create_error_log(r.exc), immediate |-> NoneText]
     ELSE r

\* ------------------------------------------ _execute_answer_sources, pure
\* (source or "casual").strip().lower() on the tag spellings that occur
StripLower(source) ==
  CASE source = " Database" -> "database"
    [] source = "DOCUMENT" -> "document"
    [] source = "Casual " -> "casual"
    [] source = " " -> ""
    [] OTHER -> source

normalize_source(source) ==
  StripLower(IF source = NoneStr \/ source = "" THEN "casual" ELSE source)

\* first loop: normalise, drop unknown tags, drop repeats keeping the first
RECURSIVE dedupe(_, _)
dedupe(answer_sources, seen) ==
  IF answer_sources = <<>> THEN <<>>
  ELSE LET normalized == normalize_source(Head(answer_sources))
       IN IF normalized \notin Tags \/ normalized \in seen
          THEN dedupe(Tail(answer_sources), seen)
          ELSE <<normalized>> \o dedupe(Tail(answer_sources), seen \cup {normalized})

\* the second loop without the heavy_seen test
cap_heavy_uncapped(deduped, heavy_seen) == deduped

\* the second loop keeping nothing but the first heavy source
cap_heavy_heavy_only(deduped, heavy_seen) ==
  LET h == Filter(deduped, HeavyTags)
  IN IF h = <<>> THEN deduped ELSE <<h[1]>>

\* second loop: keep only the first heavy source
RECURSIVE cap_heavy(_, _)
cap_heavy(deduped, heavy_seen) ==
  IF deduped = <<>> THEN <<>>
  ELSE IF Head(deduped) \in HeavyTags
       THEN IF heavy_seen THEN cap_heavy(Tail(deduped), TRUE)
            ELSE <<Head(deduped)>> \o cap_heavy(Tail(deduped), TRUE)
       ELSE <<Head(deduped)>> \o cap_heavy(Tail(deduped), heavy_seen)

\* deduped_sources as it stands after line 269
capped_sources(answer_sources) ==
  cap_heavy(dedupe(IF answer_sources = <<>> THEN <<"casual">> ELSE answer_sources, {}),
            FALSE)

\* the account test as "account_id is None"
account_missing_none_only(account_id) == account_id = NoneInt

\* not account_id
account_missing(account_id) == account_id = NoneInt \/ account_id = 0

MissingAccountError == "Structured sources require a valid account_id."

\* both backends called whatever the capped list holds
async_calls_for_both(deduped_sources) == <<"database", "document">>

\* the calls appended to async_calls, in append order
async_calls_for(deduped_sources) ==
  (IF "database" \in SeqToSet(deduped_sources) THEN <<"database">> ELSE <<>>)
  \o (IF "document" \in SeqToSet(deduped_sources) THEN <<"document">> ELSE <<>>)

label_map(name) ==
  IF name = "database" THEN "Database Result"
  ELSE IF name = "document" THEN "Document Result" ELSE name

\* the combined raw text with a label on every section, a single one too
combine_sections_labeled(active_sources, section_texts) ==
  Strip(Join(<<"\n", "\n">>,
    [i \in 1..Len(active_sources) |->
       <<label_map(active_sources[i]), ":", "\n">>
         \o section_texts[active_sources[i]]]))

\* the combined raw text before the SQL-template suffix
combine_sections(active_sources, section_texts) ==
  IF Len(active_sources) = 1 THEN section_texts[active_sources[1]]
  ELSE Strip(Join(<<"\n", "\n">>,
         [i \in 1..Len(active_sources) |->
            <<label_map(active_sources[i]), ":", "\n">>
              \o section_texts[active_sources[i]]]))

\* Chatbot._format_sql_templates()["text"]: one rendered block per template
format_sql_templates_text(templates) ==
  Join(<<"\n", "\n">>, [i \in 1..Len(templates) |-> <<templates[i]>>])

with_sql_templates(result, active_sources, templates) ==
  IF "database" \in SeqToSet(active_sources) /\ format_sql_templates_text(templates) # <<>>
  THEN Strip(result \o <<"\n", "\n">>
             \o Strip(<<"Kullanilabilir SQL Sablonlari:", "\n">>
                      \o format_sql_templates_text(templates)))
  ELSE result

extras_for(active_sources, templates) ==
  IF "database" \in SeqToSet(active_sources)
  THEN [sql_templates |-> templates,
        sql_templates_text |-> format_sql_templates_text(templates)]
  ELSE [empty |-> TRUE]

\* ------------------------------------------------------ backend services
Usage(prompt_tokens, completion_tokens, response_time_ms) ==
  [prompt_tokens |-> prompt_tokens, completion_tokens |-> completion_tokens,
   total_tokens |-> prompt_tokens + completion_tokens,
   response_time_ms |-> response_time_ms]

Returned(content, usage) == [raised |-> FALSE, content |-> content, usage |-> usage]
Raised(exc) == [raised |-> TRUE, exc |-> exc]

DatabaseEvents == {"answered", "padded", "blank", "llm_failed", "query_failed"}
DocumentEvents == {"answered", "no_results", "search_failed"}

\* SQLQueryAgentService.advanced_database_chat: returns (final_answer,
\* usage_log); every exception is re-raised as Exception(error_msg)
advanced_database_chat(event) ==
  CASE event = "query_failed" ->
         Raised("Advanced SQL agent error: query failed")
    [] event = "llm_failed" ->
         LET r == chat_completion(HttpFail("timeout"), ChatbotUsageLog,
                                  "google/gemini-2.5-flash")
         IN Returned(r.content.text, r.usage_log)
    [] OTHER ->
         LET text == CASE event = "answered" -> <<"rows">>
                       [] event = "padded" -> <<" ", "rows", "\n">>
                       [] OTHER -> <<>>
             r == chat_completion(HttpOk(TextContent(text), Usage(30, 5, 300)),
                                  ChatbotUsageLog, "google/gemini-2.5-flash")
         IN Returned(r.content.text, r.usage_log)

\* SemanticSearchService.advanced_document_chat: returns (text, usage_log);
\* every exception is turned into a fixed text and an error log
advanced_document_chat(event) ==
  CASE event = "search_failed" ->
         Returned(<<"Belge analizi sirasinda bir hata olustu.">>,
                  create_error_log("Advanced document chat error: search failed"))
    [] event = "no_results" ->
         Returned(<<"Bu hesap icin ilgili sonuc bulunamadi.">>, ChatbotUsageLog)
    [] OTHER ->
         LET r == chat_completion(HttpOk(TextContent(<<"passage">>), Usage(40, 8, 400)),
                                  ChatbotUsageLog, "google/gemini-2.0-flash-001")
         IN Returned(r.content.text \o <<"\n", "\n", "Kaynaklar:", "\n">>,
                     r.usage_log)

backend_call(name, event) ==
  IF name = "database" THEN advanced_database_chat(event)
  ELSE advanced_document_chat(event)

\* a backend whose call never completes
BackendEvents_never(name) == {}

BackendEvents(name) == IF name = "database" THEN DatabaseEvents ELSE DocumentEvents

\* ------------------------------------------------------------ input sets
Question == << "soru" >>
Modes == {"standard", "support"}
AccountIds == {NoneInt, 0, 7}
Contexts == {"valid", "malformed"}
\* tag spellings given directly to _execute_answer_sources
RawTags == Tags \cup {" Database", "", "web", NoneStr}
\* ChatbotSqlTemplate rows held by the SQL service
TemplateSets == {<<>>, <<"Input: x Query: y Description: z">>}

NoHttp == [ok |-> FALSE, err |-> "<not called>"]
RouteUsage == Usage(8, 2, 100)
SynthUsage == Usage(20, 6, 200)

RouteDocs ==
  [sources : SeqsUpTo(Tags, 0, MaxRawLen) \cup {<<"web">>, MissingField},
   improved_question : {<<" ">>, <<" ", "soru2">>},
   casual_response : {NoneText, <<>>, <<" ">>, <<"merhaba", " ">>}]
  \cup {[sources |-> <<"document">>, improved_question |-> MissingField,
         casual_response |-> NoneText]}

\* what the completion service can do on the routing call
RouteHttps ==
  {HttpOk(JsonContent(d), RouteUsage) : d \in RouteDocs}
  \cup {HttpOk(TextContent(<<"not json">>), RouteUsage), HttpFail("timeout")}

\* what the completion service can do on the synthesis call
SynthHttps ==
  {HttpOk(TextContent(<<" ", "polished", "\n">>), SynthUsage),
   HttpOk(TextContent(<<>>), SynthUsage),
   HttpFail("timeout")}

HarnessUsages ==
  {ModelUsage("m1", 1, 1, 2, 1, 5), ModelUsage("m2", 2, 0, 3, 0, 7)}

\* ------------------------------------------------------------------ state
VARIABLES
  entry,            \* the method the caller invoked
  req,              \* its arguments
  sql_templates,    \* sql_query_agent_service.chatbot_sql_templates
  pc,               \* _run_chat_pipeline: idle, ROUTE, IMMEDIATE_RETURN, EXECUTE, DONE, FAILED
  route_http,       \* what the completion service did on the routing call
  decision,         \* the tuple returned by plan_answer_route
  aggregated_usage, \* _run_chat_pipeline's running log
  ex_pc,            \* _execute_answer_sources: idle, start, gather, synthesis, returned, raised
  ex_args,          \* its arguments
  deduped_sources,  \* the local of that name after line 275
  async_calls,      \* names of the awaitables handed to asyncio.gather
  gathered,         \* outcome of each awaitable that has completed
  first_exc,        \* first exception raised by an awaitable
  combined_usage,   \* the executor's running log
  raw_result,       \* result: the combined raw text
  ex_ret,           \* what _execute_answer_sources returned or raised
  synth_http,       \* what the completion service did on the synthesis call
  calls,            \* external calls issued so far, in issue order
  pipeline,         \* what _run_chat_pipeline returned or raised
  agent_response,   \* what interact_with_agent returned
  support_response, \* what handle_support_chat returned
  logs,             \* free-standing ChatbotUsageLog objects
  usage_ops         \* operations applied to them so far

vars == <<entry, req, sql_templates, pc, route_http, decision, aggregated_usage,
          ex_pc, ex_args, deduped_sources, async_calls, gathered, first_exc,
          combined_usage, raw_result, ex_ret, synth_http, calls, pipeline,
          agent_response,
          support_response, logs, usage_ops>>

route_vars == <<route_http, decision, aggregated_usage>>
exec_vars == <<ex_pc, ex_args, deduped_sources, async_calls, gathered, first_exc,
               combined_usage, raw_result, ex_ret, synth_http>>
usage_vars == <<logs, usage_ops>>
out_vars == <<pipeline, agent_response, support_response>>
const_vars == <<entry, req, sql_templates>>

Nothing == [kind |-> "none"]
NoArgs == [answer_sources |-> <<>>, question |-> <<>>, context |-> "valid",
           account_id |-> NoneInt]

Entries == {"handle_support_chat", "interact_with_agent", "_run_chat_pipeline",
            "_execute_answer_sources", "usage_log"}

\* the swallow policy selected for every mode
raise_on_error_for_never(mode) == FALSE

\* interact_with_agent line 442: raise_on_error=request.mode != ChatMode.SUPPORT
raise_on_error_for(mode) == mode # "support"

\* the arguments each entry point can be called with.  handle_support_chat
\* builds ChatRequest(context=[], mode=SUPPORT); interact_with_agent receives
\* a validated ChatRequest and derives raise_on_error from the mode.
Requests(e) ==
  CASE e = "handle_support_chat" ->
         [content : {Question}, context : {"valid"}, account_id : AccountIds,
          mode : {"support"}, raise_on_error : {raise_on_error_for("support")}]
    [] e = "interact_with_agent" ->
         {r \in [content : {Question}, context : {"valid"}, account_id : AccountIds,
                 mode : Modes, raise_on_error : BOOLEAN] :
            r.raise_on_error = raise_on_error_for(r.mode)}
    [] e = "_run_chat_pipeline" ->
         [content : {Question}, context : Contexts, account_id : AccountIds,
          mode : Modes, raise_on_error : BOOLEAN]
    [] OTHER ->
         [content : {Question}, context : {"valid"}, account_id : {NoneInt},
          mode : {"standard"}, raise_on_error : {TRUE}]

ExecArgs ==
  [answer_sources : SeqsUpTo(RawTags, 0, MaxExecLen), question : {Question},
   context : Contexts, account_id : AccountIds]

Init ==
  /\ entry \in Entries
  /\ req \in Requests(entry)
  /\ sql_templates \in (IF entry = "usage_log" THEN {<<>>} ELSE TemplateSets)
  /\ pc = IF entry \in {"handle_support_chat", "interact_with_agent", "_run_chat_pipeline"}
          THEN "ROUTE" ELSE "idle"
  /\ route_http = NoHttp
  /\ decision = Nothing
  /\ aggregated_usage = ChatbotUsageLog
  /\ ex_pc = IF entry = "_execute_answer_sources" THEN "start" ELSE "idle"
  /\ ex_args \in (IF entry = "_execute_answer_sources" THEN ExecArgs ELSE {NoArgs})
  /\ deduped_sources = <<>>
  /\ async_calls = <<>>
  /\ gathered = <<>>
  /\ first_exc = NoExc
  /\ combined_usage = ChatbotUsageLog
  /\ raw_result = <<>>
  /\ ex_ret = Nothing
  /\ synth_http = NoHttp
  /\ calls = <<>>
  /\ pipeline = Nothing
  /\ agent_response = Nothing
  /\ support_response = Nothing
  /\ logs = [i \in 1..3 |-> ChatbotUsageLog]
  /\ usage_ops = <<>>

\* the except branch re-raising whatever the policy
pipeline_failed_reraise(exc, raise_on_error, message) ==
  [kind |-> "raised", exc |-> exc]

\* _run_chat_pipeline's except branch (lines 419-431)
pipeline_failed(exc, raise_on_error, message) ==
  IF raise_on_error
  THEN [kind |-> "raised", exc |-> exc]
  ELSE [kind |-> "result", answer |-> <<>>, raw_result |-> <<>>,
        usage_log |-> create_error_log(exc), sources |-> <<"casual">>,
        improved_question |-> message, extras |-> [empty |-> TRUE]]

\* ------------------------------------------------------------ ROUTE
\* _run_chat_pipeline lines 380-402: call plan_answer_route, merge its usage,
\* then either return the immediate answer or enter the executor
Route ==
  /\ pc = "ROUTE"
  /\ \E http \in (IF serialize_context_raises(req.context) THEN {NoHttp} ELSE RouteHttps) :
       LET d == plan_answer_route(req.content, req.context, req.mode, http)
       IN /\ route_http' = http
          /\ decision' = d
          /\ calls' = IF serialize_context_raises(req.context) THEN calls
                      ELSE Append(calls, "routing")
          /\ IF d.kind = "raised"
             THEN /\ pc' = "FAILED"
                  /\ pipeline' = pipeline_failed(d.exc, req.raise_on_error, req.content)
                  /\ UNCHANGED <<aggregated_usage, ex_pc, ex_args>>
             ELSE /\ aggregated_usage' = update_usage_log(ChatbotUsageLog, d.usage_log)
                  /\ UNCHANGED pipeline
                  /\ IF d.immediate # NoneText
                     THEN /\ pc' = "IMMEDIATE_RETURN"
                          /\ UNCHANGED <<ex_pc, ex_args>>
                     ELSE /\ pc' = "EXECUTE"
                          /\ ex_pc' = "start"
                          /\ ex_args' = [answer_sources |-> d.sources,
                                         question |-> d.question,
                                         context |-> req.context,
                                         account_id |-> req.account_id]
  /\ UNCHANGED <<deduped_sources, async_calls, gathered, first_exc, combined_usage,
                 raw_result, ex_ret, synth_http>>
  /\ UNCHANGED <<const_vars, agent_response, support_response, usage_vars>>

\* the immediate return with the raw answer left empty
immediate_result_no_raw(d, usage, message) ==
  [kind |-> "result", answer |-> d.immediate, raw_result |-> <<>>,
   usage_log |-> usage,
   sources |-> IF d.sources = <<>> THEN <<"casual">> ELSE d.sources,
   improved_question |-> message, extras |-> [empty |-> TRUE]]

\* lines 392-400: the dictionary returned when the decision has an immediate
\* answer
immediate_result(d, usage, message) ==
  [kind |-> "result", answer |-> d.immediate, raw_result |-> d.immediate,
   usage_log |-> usage,
   sources |-> IF d.sources = <<>> THEN <<"casual">> ELSE d.sources,
   improved_question |-> message, extras |-> [empty |-> TRUE]]

\* lines 392-400
ImmediateReturn ==
  /\ pc = "IMMEDIATE_RETURN"
  /\ pc' = "DONE"
  /\ pipeline' = immediate_result(decision, aggregated_usage, req.content)
  /\ UNCHANGED <<const_vars, route_vars, exec_vars, calls, agent_response,
                 support_response, usage_vars>>

\* ------------------------------------------------------------ EXECUTE
\* lines 247-307: normalise, cap, check the account, start the awaitables
ExecStart ==
  /\ ex_pc = "start"
  /\ LET capped == capped_sources(ex_args.answer_sources)
         resolved == IF capped = <<>> THEN <<"casual">> ELSE capped
     IN IF account_missing(ex_args.account_id)
        THEN /\ ex_pc' = "raised"
             /\ ex_ret' = [kind |-> "raised", exc |-> MissingAccountError]
             /\ deduped_sources' = capped
             /\ UNCHANGED <<async_calls, calls>>
        ELSE /\ ex_pc' = "gather"
             /\ deduped_sources' = resolved
             /\ async_calls' = async_calls_for(resolved)
             /\ calls' = calls \o async_calls_for(resolved)
             /\ UNCHANGED ex_ret
  /\ UNCHANGED <<ex_args, gathered, first_exc, combined_usage, raw_result, synth_http>>
  /\ UNCHANGED <<const_vars, pc, route_vars, out_vars, usage_vars>>

\* one awaitable handed to asyncio.gather completes or raises
BackendCompletes ==
  /\ ex_pc = "gather"
  /\ \E name \in SeqToSet(async_calls) \ DOMAIN gathered :
       \E event \in BackendEvents(name) :
         LET out == backend_call(name, event)
         IN /\ gathered' = (name :> out) @@ gathered
            /\ first_exc' = IF out.raised /\ first_exc = NoExc THEN out.exc
                            ELSE first_exc
  /\ UNCHANGED <<ex_pc, ex_args, deduped_sources, async_calls, combined_usage,
                 raw_result, ex_ret, synth_http, calls>>
  /\ UNCHANGED <<const_vars, pc, route_vars, out_vars, usage_vars>>

\* usage merged in the order of async_calls (lines 311-315)
RECURSIVE merge_gathered(_, _, _)
merge_gathered(log, names, outs) ==
  IF names = <<>> THEN log
  ELSE merge_gathered(update_usage_log(log, outs[Head(names)].usage),
                      Tail(names), outs)

\* lines 307-338: the await returns (or re-raises the first exception), then
\* usage, active sources and the combined raw text are built
ExecJoin ==
  /\ ex_pc = "gather"
  /\ \/ first_exc # NoExc
     \/ DOMAIN gathered = SeqToSet(async_calls)
  /\ IF first_exc # NoExc
     THEN /\ ex_pc' = "raised"
          /\ ex_ret' = [kind |-> "raised", exc |-> first_exc]
          /\ UNCHANGED <<combined_usage, raw_result>>
     ELSE LET active_sources == async_calls
              section_texts == [n \in DOMAIN gathered |->
                                  Strip(OrEmpty(gathered[n].content))]
          IN /\ ex_pc' = "synthesis"
             /\ combined_usage' = merge_gathered(ChatbotUsageLog, async_calls, gathered)
             /\ raw_result' = with_sql_templates(
                                 combine_sections(active_sources, section_texts),
                                 active_sources, sql_templates)
             /\ UNCHANGED ex_ret
  /\ UNCHANGED <<ex_args, deduped_sources, async_calls, gathered, first_exc,
                 synth_http, calls>>
  /\ UNCHANGED <<const_vars, pc, route_vars, out_vars, usage_vars>>

\* the polishing step merging the backend usage after its own
synthesize_entry_first(result, usage, context, http) ==
  IF serialize_context_raises(context)
  THEN [processed_result |-> result,
        usage_log |-> update_usage_log(usage, create_error_log(ContextError))]
  ELSE LET response == chat_completion(http, ChatbotUsageLog, SynthesisModel)
       IN [processed_result |-> Strip(response.content.text),
           usage_log |-> update_usage_log(response.usage_log, usage)]

\* lines 340-362: the polishing call and its except branch; the value is
\* (processed_result, combined_usage)
synthesize(result, usage, context, http) ==
  IF serialize_context_raises(context)
  THEN [processed_result |-> result,
        usage_log |-> update_usage_log(usage, create_error_log(ContextError))]
  ELSE LET response == chat_completion(http, ChatbotUsageLog, SynthesisModel)
       IN [processed_result |-> Strip(response.content.text),
           usage_log |-> update_usage_log(usage, response.usage_log)]

\* lines 340-364
Synthesize ==
  /\ ex_pc = "synthesis"
  /\ \E http \in (IF serialize_context_raises(ex_args.context) THEN {NoHttp}
                  ELSE SynthHttps) :
       LET r == synthesize(raw_result, combined_usage, ex_args.context, http)
       IN /\ combined_usage' = r.usage_log
          /\ ex_ret' = [kind |-> "returned", processed_result |-> r.processed_result,
                        raw_result |-> raw_result, usage_log |-> r.usage_log,
                        active_sources |-> async_calls,
                        extras |-> extras_for(async_calls, sql_templates)]
          /\ synth_http' = http
          /\ calls' = IF serialize_context_raises(ex_args.context) THEN calls
                      ELSE Append(calls, "synthesis")
  /\ ex_pc' = "returned"
  /\ UNCHANGED <<ex_args, deduped_sources, async_calls, gathered, first_exc, raw_result>>
  /\ UNCHANGED <<const_vars, pc, route_vars, out_vars, usage_vars>>

\* ------------------------------------------------------- DONE / FAILED
\* lines 404-431: the executor's tuple becomes the result, or its exception
\* is re-raised (raise_on_error) or swallowed into the degraded result
PipelineFinish ==
  /\ pc = "EXECUTE"
  /\ ex_pc \in {"returned", "raised"}
  /\ IF ex_ret.kind = "returned"
     THEN /\ pc' = "DONE"
          /\ aggregated_usage' = update_usage_log(aggregated_usage, ex_ret.usage_log)
          /\ pipeline' = [kind |-> "result", answer |-> ex_ret.processed_result,
                          raw_result |-> ex_ret.raw_result,
                          usage_log |-> update_usage_log(aggregated_usage, ex_ret.usage_log),
                          sources |-> ex_ret.active_sources,
                          improved_question |-> ex_args.question,
                          extras |-> ex_ret.extras]
     ELSE /\ pc' = "FAILED"
          /\ UNCHANGED aggregated_usage
          /\ pipeline' = pipeline_failed(ex_ret.exc, req.raise_on_error, req.content)
  /\ UNCHANGED <<route_http, decision, exec_vars, calls, agent_response,
                 support_response>>
  /\ UNCHANGED <<const_vars, usage_vars>>

\* ----------------------------------------------------- interact_with_agent
AgentApology == << "I encountered an error processing your request. Please try again." >>

\* ", ".join(sources)
conversation_type(sources) ==
  Join(<<", ">>, [i \in 1..Len(sources) |-> <<sources[i]>>])

\* interact_with_agent without its except branch
interact_with_agent_uncaught(p, mode) ==
  IF p.kind = "result"
  THEN [kind |-> "payload", success |-> TRUE, response |-> p.answer,
        usage_logs |-> p.usage_log,
        conversation_type |-> conversation_type(p.sources),
        improved_question |-> p.improved_question, mode |-> mode]
  ELSE [kind |-> "raised", exc |-> p.exc]

\* Chatbot.interact_with_agent (lines 433-463) given what the awaited
\* _run_chat_pipeline did: shape its result, or catch what it raised
interact_with_agent(p, mode) ==
  IF p.kind = "result"
  THEN [kind |-> "payload", success |-> TRUE, response |-> p.answer,
        usage_logs |-> p.usage_log,
        conversation_type |-> conversation_type(p.sources),
        improved_question |-> p.improved_question, mode |-> mode]
  ELSE [kind |-> "payload", success |-> FALSE, response |-> AgentApology,
        usage_logs |-> create_error_log(p.exc),
        conversation_type |-> <<"error">>,
        improved_question |-> NoneText, mode |-> NoneStr]

InteractReturns ==
  /\ entry \in {"interact_with_agent", "handle_support_chat"}
  /\ pc \in {"DONE", "FAILED"}
  /\ agent_response = Nothing
  /\ agent_response' = interact_with_agent(pipeline, req.mode)
  /\ UNCHANGED <<const_vars, pc, route_vars, exec_vars, calls, pipeline,
                 support_response, usage_vars>>

\* ----------------------------------------------------- handle_support_chat
\* Chatbot._build_support_error_response
build_support_error_response ==
  [response |-> << "Uzgunum, bir hata olustu. Lutfen canli destek talep edin." >>,
   confidence |-> 0, needsHumanSupport |-> TRUE, intent |-> "error",
   suggestions |-> << "Canli destek talep et" >>]

\* handle_support_chat without the test for an empty answer
handle_support_chat_no_empty_check(a) ==
  IF a.kind = "raised" THEN build_support_error_response
  ELSE [response |-> Strip(a.response), confidence |-> 7,
        needsHumanSupport |-> FALSE, intent |-> "general",
        suggestions |-> <<>>]

\* Chatbot.handle_support_chat (lines 487-505) given what the awaited
\* interact_with_agent did; confidence is in tenths (0.7 is 7)
handle_support_chat(a) ==
  IF a.kind = "raised" THEN build_support_error_response
  ELSE LET base_response == Strip(a.response)
       IN IF base_response = <<>> THEN build_support_error_response
          ELSE [response |-> base_response, confidence |-> 7,
                needsHumanSupport |-> FALSE, intent |-> "general",
                suggestions |-> <<>>]

HandleSupportReturns ==
  /\ entry = "handle_support_chat"
  /\ agent_response # Nothing
  /\ support_response = Nothing
  /\ support_response' = handle_support_chat(agent_response)
  /\ UNCHANGED <<const_vars, pc, route_vars, exec_vars, calls, pipeline,
                 agent_response, usage_vars>>

\* ------------------------------------------------- usage-log operations
\* ChatbotUsageLog.add_usage on one of the free-standing logs
AddUsage ==
  /\ entry = "usage_log"
  /\ Len(usage_ops) < MaxUsageOps
  /\ \E i \in DOMAIN logs, u \in HarnessUsages :
       logs' = [logs EXCEPT ![i] = add_usage(@, u)]
  /\ usage_ops' = Append(usage_ops, "add_usage")
  /\ UNCHANGED <<const_vars, pc, route_vars, exec_vars, calls, out_vars>>

\* Chatbot._update_usage_log(target, source) on two of them, or with an
\* absent source
UpdateUsageLog ==
  /\ entry = "usage_log"
  /\ Len(usage_ops) < MaxUsageOps
  /\ \E i \in DOMAIN logs :
       \/ \E j \in DOMAIN logs \ {i} :
            logs' = [logs EXCEPT ![i] = update_usage_log(@, logs[j])]
       \/ logs' = [logs EXCEPT ![i] = update_usage_log(@, NoneLog)]
  /\ usage_ops' = Append(usage_ops, "_update_usage_log")
  /\ UNCHANGED <<const_vars, pc, route_vars, exec_vars, calls, out_vars>>

Next ==
  \/ Route
  \/ ImmediateReturn
  \/ ExecStart
  \/ BackendCompletes
  \/ ExecJoin
  \/ Synthesize
  \/ PipelineFinish
  \/ InteractReturns
  \/ HandleSupportReturns
  \/ AddUsage
  \/ UpdateUsageLog

Spec == Init /\ [][Next]_vars

\* the coroutine steps the event loop runs between two awaits
Resume ==
  \/ ImmediateReturn
  \/ ExecStart
  \/ ExecJoin
  \/ PipelineFinish
  \/ InteractReturns
  \/ HandleSupportReturns

\* every routing, backend and synthesis call eventually returns or raises,
\* and the event loop resumes a coroutine that can run
LiveSpec ==
  /\ Spec
  /\ WF_vars(Route)
  /\ WF_vars(BackendCompletes)
  /\ WF_vars(Synthesize)
  /\ WF_vars(Resume)

\* ================================================================ claims
\* the routing response was parsed into a DetermineAnswerSourceResult
RouteParsed == route_http.ok /\ Validates(route_http.content)
\* the sources field of the parsed routing response
RouteChosen == Parsed(route_http.content).sources

\* backend calls issued so far
BackendCalls == Filter(calls, HeavyTags)
\* the input of the executor, normalised and de-duplicated
NormalizedInput ==
  dedupe(IF ex_args.answer_sources = <<>> THEN <<"casual">> ELSE ex_args.answer_sources, {})
\* its first heavy tag, as a list of at most one element
FirstHeavy ==
  LET h == Filter(NormalizedInput, HeavyTags)
  IN IF h = <<>> THEN <<>> ELSE <<h[1]>>
ExecStarted == ex_pc \notin {"idle", "start"}
ExecEnded == ex_pc \in {"returned", "raised"}

\* C1: interact_with_agent never raises; when the pipeline raised, the
\* response is the fixed apology with success=false and an error-status
\* usage log carrying the exception message.
C1_InteractNeverRaises ==
  /\ agent_response.kind \in {"none", "payload"}
  /\ (agent_response.kind = "payload" /\ pipeline.kind = "raised") =>
       /\ agent_response.success = FALSE
       /\ agent_response.response = AgentApology
       /\ agent_response.usage_logs.status = "error"
       /\ agent_response.usage_logs.message = pipeline.exc

C1_Witness ==
  /\ agent_response.kind = "payload"
  /\ pipeline.kind = "raised"
  /\ pipeline.exc = MissingAccountError

\* C2: plan_answer_route always returns a decision tuple (sources, question,
\* usage log, immediate answer) and never raises, whatever the completion
\* service does and whatever mode and context are.
C2_RouterAlwaysReturns ==
  /\ (pc # "ROUTE" /\ pc # "idle") => decision # Nothing
  /\ decision # Nothing =>
       /\ decision.kind = "decision"
       /\ DOMAIN decision = {"kind", "sources", "question", "usage_log", "immediate"}

C2_Witness ==
  /\ decision.kind = "decision"
  /\ req.context = "malformed"
  /\ decision.usage_log.status = "error"

\* C3: when the parsed routing response lists more than one source and
\* casual is among them, the returned decision contains casual only if
\* casual is its sole entry.
C3_CasualDroppedBesideOthers ==
  (decision.kind = "decision" /\ RouteParsed /\ Len(RouteChosen) > 1
     /\ "casual" \in SeqToSet(RouteChosen)) =>
    ("casual" \in SeqToSet(decision.sources) => decision.sources = <<"casual">>)

C3_Witness ==
  /\ decision.kind = "decision"
  /\ RouteParsed
  /\ RouteChosen = <<"casual", "document">>
  /\ req.mode = "standard"
  /\ decision.sources = <<"document">>

\* C4 (as claimed): in support mode, a routing response whose chosen sources
\* contain casual at all yields the decision [casual].
C4_SupportCollapsesToCasual ==
  (decision.kind = "decision" /\ RouteParsed /\ req.mode = "support"
     /\ "casual" \in SeqToSet(RouteChosen)) =>
    decision.sources = <<"casual">>

\* C5: with an account_id present the executor issues at most one backend
\* call, to the first heavy tag of the normalised, de-duplicated input;
\* no later heavy tag's backend is called.
C5_OneBackendCallFirstHeavy ==
  (ExecStarted /\ ex_args.account_id \notin {NoneInt, 0}) =>
    /\ BackendCalls = FirstHeavy
    /\ Len(BackendCalls) <= 1
    /\ DOMAIN gathered \subseteq SeqToSet(FirstHeavy)

C5_Witness ==
  /\ ex_pc = "returned"
  /\ ex_args.answer_sources = <<"document", "database">>
  /\ BackendCalls = <<"document">>

\* the executor's input holds casual together with a heavy tag
CasualWithHeavy ==
  /\ "casual" \in SeqToSet(NormalizedInput)
  /\ SeqToSet(NormalizedInput) \cap HeavyTags # {}

\* C6 (as claimed): with casual and a heavy tag in the input, the returned
\* active-sources list contains casual alongside exactly one heavy tag.
C6_ActiveSourcesKeepCasual ==
  (ex_pc = "returned" /\ CasualWithHeavy) =>
    /\ "casual" \in SeqToSet(ex_ret.active_sources)
    /\ Cardinality(SeqToSet(ex_ret.active_sources) \cap HeavyTags) = 1

\* C6 (amended): with casual and a heavy tag in the input, the capped source
\* list keeps casual next to exactly one heavy tag, and the returned
\* active-sources list is that one heavy tag alone, without casual.
C6_CapKeepsCasualActiveIsHeavy ==
  (ex_pc = "returned" /\ CasualWithHeavy) =>
    /\ "casual" \in SeqToSet(deduped_sources)
    /\ Len(Filter(deduped_sources, HeavyTags)) = 1
    /\ ex_ret.active_sources = FirstHeavy

C6_Witness ==
  /\ ex_pc = "returned"
  /\ ex_args.answer_sources = <<"casual", "database", "document">>
  /\ deduped_sources = <<"casual", "database">>
  /\ ex_ret.active_sources = <<"database">>

\* C7: called with a surviving heavy source and account_id None or zero, the
\* executor raises the missing-account error, and no backend call and no
\* synthesis call has been made.
C7_MissingAccountRaisesFirst ==
  (ExecStarted /\ ex_args.account_id \in {NoneInt, 0} /\ FirstHeavy # <<>>) =>
    /\ ex_pc = "raised"
    /\ ex_ret = [kind |-> "raised", exc |-> MissingAccountError]
    /\ Filter(calls, HeavyTags \cup {"synthesis"}) = <<>>
    /\ gathered = <<>>

C7_Witness ==
  /\ ex_pc = "raised"
  /\ ex_args.account_id = 0
  /\ ex_args.answer_sources = <<"database">>
  /\ ex_ret.exc = MissingAccountError

\* the executor's input resolves to casual alone
ResolvesToCasual == SeqToSet(NormalizedInput) \subseteq {"casual"}

\* C8 (as claimed): a source list resolving to casual alone makes no backend
\* call and returns the synthesis output, with or without an account_id.
C8_CasualAloneNeedsNoAccount ==
  (ExecEnded /\ ResolvesToCasual) =>
    /\ ex_ret.kind = "returned"
    /\ BackendCalls = <<>>

\* every ChatbotUsageLog held anywhere in the state
StateLogs ==
  {logs[i] : i \in DOMAIN logs}
  \cup {aggregated_usage, combined_usage}
  \cup (IF decision.kind = "decision" THEN {decision.usage_log} ELSE {})
  \cup {gathered[n].usage : n \in {m \in DOMAIN gathered : ~gathered[m].raised}}
  \cup (IF ex_ret.kind = "returned" THEN {ex_ret.usage_log} ELSE {})
  \cup (IF pipeline.kind = "result" THEN {pipeline.usage_log} ELSE {})
  \cup (IF agent_response.kind = "payload" THEN {agent_response.usage_logs} ELSE {})

Totals(log) == <<log.total_tokens, log.total_cost, log.total_response_time_ms>>

\* C9: in every reachable state every usage log's three totals equal the
\* sums over its entries, and merging the same logs in either order gives
\* the same totals.
C9_TotalsEqualSums ==
  /\ \A log \in StateLogs : TotalsMatch(log)
  /\ \A i, j, k \in DOMAIN logs :
       (i # j /\ i # k /\ j # k) =>
         /\ Totals(update_usage_log(update_usage_log(logs[i], logs[j]), logs[k]))
              = Totals(update_usage_log(update_usage_log(logs[i], logs[k]), logs[j]))
         /\ TotalsMatch(update_usage_log(update_usage_log(logs[i], logs[j]), logs[k]))

C9_Witness ==
  /\ Len(usage_ops) = MaxUsageOps
  /\ usage_ops[Len(usage_ops)] = "_update_usage_log"
  /\ Len(logs[1].model_usages) >= 2
  /\ logs[1].total_cost > 0
  /\ logs[2].model_usages # <<>>

\* the synthesis step failed: the completion service did not answer, or the
\* step raised before calling it
SynthesisFailed == ex_pc = "returned" /\ ~synth_http.ok

\* C10 (as claimed): when the synthesis call fails the executor still
\* returns and its answer equals the combined raw text, also when the
\* completion service is unreachable or answers with an error.
C10_SynthesisFailureKeepsRawText ==
  SynthesisFailed =>
    /\ ex_ret.kind = "returned"
    /\ ex_ret.processed_result = ex_ret.raw_result

\* the log accumulated from the backend calls alone (lines 311-315)
BackendUsage == merge_gathered(ChatbotUsageLog, async_calls, gathered)

\* C11 (as claimed): when the synthesis call fails, the usage log the
\* executor returns records the failure: it differs from the log accumulated
\* from the backend calls by an entry or by an error status or message.
C11_SynthesisFailureRecorded ==
  SynthesisFailed =>
    \/ ex_ret.usage_log.model_usages # BackendUsage.model_usages
    \/ ex_ret.usage_log.status = "error"
    \/ ex_ret.usage_log.message # NoneStr

\* an exception left the body of plan_answer_route
RoutingRaised ==
  /\ decision # Nothing
  /\ plan_answer_route_try(req.content, req.context, req.mode, route_http).kind = "raised"

\* C12: when an exception is raised inside the routing step, the Router
\* returns exactly ([document], the original question, an error-status log
\* with no usage entries carrying the exception message, no immediate answer).
C12_RoutingExceptionDefaultsToDocument ==
  RoutingRaised =>
    /\ decision.kind = "decision"
    /\ decision.sources = <<"document">>
    /\ decision.question = req.content
    /\ decision.usage_log.status = "error"
    /\ decision.usage_log.model_usages = <<>>
    /\ decision.usage_log.message = ContextError
    /\ decision.immediate = NoneText

C12_Witness ==
  /\ RoutingRaised
  /\ decision.sources = <<"document">>
  /\ decision.usage_log.message = ContextError
  /\ pc = "EXECUTE"

\* the routing call was made and the completion service failed on it
RoutingServiceFailed ==
  /\ decision # Nothing
  /\ "routing" \in SeqToSet(calls)
  /\ ~route_http.ok

\* C13 (as claimed): when the completion service is unreachable or answers
\* with an error during routing, the decision is [document] with the
\* original question and no immediate answer.
C13_ServiceFailureDefaultsToDocument ==
  RoutingServiceFailed =>
    /\ decision.sources = <<"document">>
    /\ decision.question = req.content
    /\ decision.immediate = NoneText

\* the routing call returned a content that is not a conforming payload
RoutingUnparseable ==
  /\ decision # Nothing
  /\ "routing" \in SeqToSet(calls)
  /\ ~Validates(chat_completion(route_http, ChatbotUsageLog, RoutingModel).content)

\* C14: when the classification response cannot be parsed, the Router does
\* not raise and keeps the default: sources [casual], the original question,
\* the fixed apology as immediate answer, and a success-status usage log.
C14_UnparseableKeepsCasualDefault ==
  RoutingUnparseable =>
    /\ decision.kind = "decision"
    /\ decision.sources = <<"casual">>
    /\ decision.question = req.content
    /\ decision.immediate = Apology
    /\ decision.usage_log.status = "success"

C14_Witness ==
  /\ RoutingUnparseable
  /\ route_http.ok
  /\ route_http.content.kind = "json"
  /\ route_http.content.doc.sources = <<"database", "document", "casual", "database">>
  /\ decision.immediate = Apology
  /\ pc = "IMMEDIATE_RETURN"

\* the casual reply the model provided, trimmed; <<>> when it provided none
ProvidedReply ==
  IF RouteParsed THEN Strip(OrEmpty(Parsed(route_http.content).casual_response))
  ELSE <<>>

\* C15: the immediate answer of a decision is present iff neither database
\* nor document is among its sources; when present, the question is the
\* original one and the answer is the model's casual reply if it provided
\* one, else the fixed apology; a reply that comes with a surviving heavy
\* source is not used.
C15_ImmediateIffNoHeavySource ==
  decision # Nothing =>
    /\ decision.immediate # NoneText <=> SeqToSet(decision.sources) \cap HeavyTags = {}
    /\ decision.immediate # NoneText =>
         /\ decision.question = req.content
         /\ decision.immediate = IF ProvidedReply # <<>> THEN ProvidedReply ELSE Apology

C15_Witness ==
  /\ decision # Nothing
  /\ ProvidedReply = <<"merhaba">>
  /\ decision.sources = <<"database">>
  /\ decision.immediate = NoneText
  /\ decision.question = <<"soru2">>

\* the usage entries the routing call recorded
RoutingEntries ==
  IF "routing" \in SeqToSet(calls)
  THEN chat_completion(route_http, ChatbotUsageLog, RoutingModel).usage_log.model_usages
  ELSE <<>>

\* C16: when the decision carries an immediate answer, the pipeline returns
\* without any backend call or synthesis call; answer and raw_result are the
\* immediate text, extras is empty, sources is the decision's list ([casual]
\* if empty) and the usage log holds exactly the routing usage entries.
C16_ImmediateReturnSkipsBackends ==
  (pc = "DONE" /\ decision # Nothing /\ decision.immediate # NoneText) =>
    /\ pipeline.kind = "result"
    /\ pipeline.answer = decision.immediate
    /\ pipeline.raw_result = decision.immediate
    /\ pipeline.extras = [empty |-> TRUE]
    /\ pipeline.sources = IF decision.sources = <<>> THEN <<"casual">>
                          ELSE decision.sources
    /\ pipeline.usage_log.model_usages = RoutingEntries
    /\ TotalsMatch(pipeline.usage_log)
    /\ pipeline.improved_question = req.content
    /\ SeqToSet(calls) \subseteq {"routing"}
    /\ ex_pc = "idle"
    /\ ex_ret = Nothing

C16_Witness ==
  /\ pc = "DONE"
  /\ decision # Nothing
  /\ decision.immediate = <<"merhaba">>
  /\ decision.sources = <<"casual">>
  /\ pipeline.kind = "result"
  /\ pipeline.raw_result = <<"merhaba">>
  /\ Len(pipeline.usage_log.model_usages) = 1
  /\ calls = <<"routing">>

\* _run_chat_pipeline ended in its except branch
PipelineFailed == pc = "FAILED" /\ pipeline # Nothing

\* the exception that reached _run_chat_pipeline's except branch
PipelineExc ==
  IF ex_ret # Nothing /\ ex_ret.kind = "raised" THEN ex_ret.exc ELSE decision.exc

\* C17: under the swallow policy an exception raised during ROUTE or EXECUTE
\* makes _run_chat_pipeline return a degraded result: empty answer and raw
\* text, an error-status usage log with no usage entries carrying the
\* exception message, sources exactly [casual], the original question and
\* empty extras.
C17_SwallowReturnsDegradedResult ==
  (PipelineFailed /\ ~req.raise_on_error) =>
    /\ pipeline.kind = "result"
    /\ pipeline.answer = <<>>
    /\ pipeline.raw_result = <<>>
    /\ pipeline.usage_log.status = "error"
    /\ pipeline.usage_log.log_type = "error"
    /\ pipeline.usage_log.model_usages = <<>>
    /\ pipeline.usage_log.message = PipelineExc
    /\ pipeline.sources = <<"casual">>
    /\ pipeline.improved_question = req.content
    /\ pipeline.extras = [empty |-> TRUE]

C17_Witness ==
  /\ PipelineFailed
  /\ ~req.raise_on_error
  /\ decision.question = <<"soru2">>
  /\ ex_ret = [kind |-> "raised", exc |-> "Advanced SQL agent error: query failed"]
  /\ pipeline.kind = "result"
  /\ pipeline.usage_log.message = "Advanced SQL agent error: query failed"
  /\ pipeline.improved_question = Question

IsEscalation(r) ==
  /\ r.confidence = 0
  /\ r.needsHumanSupport
  /\ r.intent = "error"
  /\ Len(r.suggestions) = 1

\* the executor raised on the support path
SupportPathFailure ==
  /\ support_response # Nothing
  /\ ex_ret # Nothing
  /\ ex_ret.kind = "raised"

SupportCasualEmptyReply ==
  /\ entry = "handle_support_chat"
  /\ support_response # Nothing
  /\ RouteParsed
  /\ decision.sources = <<"casual">>
  /\ Strip(OrEmpty(Parsed(route_http.content).casual_response)) = <<>>

BackendFailed(out) == out.raised \/ out.usage.status = "error"

\* C21: if any fanned-out backend call fails, the executor call is aborted
\* and the failure propagates: no synthesis call, no usage merged, no
\* partial result returned; for the database and the document backend alike.
C21_BackendFailureAborts ==
  (\E n \in DOMAIN gathered : BackendFailed(gathered[n])) =>
    /\ ex_pc \in {"gather", "raised"}
    /\ "synthesis" \notin SeqToSet(calls)
    /\ combined_usage = ChatbotUsageLog
    /\ ex_ret # Nothing => ex_ret.kind = "raised"

\* the executor was asked for both heavy sources, and every call it issued
\* returned non-empty text
BothHeavyRequested ==
  /\ ex_pc \in {"synthesis", "returned"}
  /\ HeavyTags \subseteq SeqToSet(NormalizedInput)
  /\ \A n \in DOMAIN gathered : Strip(OrEmpty(gathered[n].content)) # <<>>

Labels == {label_map(t) : t \in HeavyTags}
LabelsIn(text) == {text[i] : i \in DOMAIN text} \cap Labels

PipelineResult ==
  /\ pipeline # Nothing
  /\ pipeline.kind = "result"
  /\ decision # Nothing
  /\ decision.kind = "decision"

\* C23 as stated: the sources reported by every pipeline result (immediate,
\* executed or degraded) are a subset of the decision's sources.
C23_ReportedSubsetOfRequested ==
  PipelineResult =>
    SeqToSet(pipeline.sources) \subseteq SeqToSet(decision.sources)

\* C23: an immediate or executed result reports a non-empty subset of the
\* decision's sources (the whole list, respectively its first heavy tag);
\* a degraded result reports [casual] whether or not casual was requested;
\* the reported list is never empty.
C23_ReportedSourcesByOutcome ==
  PipelineResult =>
    /\ pipeline.sources # <<>>
    /\ pc = "FAILED" => pipeline.sources = <<"casual">>
    /\ pc = "DONE" =>
         /\ SeqToSet(pipeline.sources) \subseteq SeqToSet(decision.sources)
         /\ pipeline.sources =
              IF decision.immediate # NoneText THEN decision.sources
              ELSE <<Filter(decision.sources, HeavyTags)[1]>>

C23_Witness ==
  /\ PipelineResult
  /\ pc = "FAILED"
  /\ decision.sources = <<"database">>
  /\ ex_ret.exc = MissingAccountError
  /\ pipeline.sources = <<"casual">>

\* C24: every decision returned by the Router has a source list of 1 to 3
\* entries, none repeated, all drawn from {database, document, casual},
\* also when the language model repeats a tag.
C24_DecisionSourcesUnique ==
  (decision # Nothing /\ decision.kind = "decision") =>
    /\ Len(decision.sources) >= MinSourcesLen
    /\ Len(decision.sources) <= MaxSourcesLen
    /\ SeqToSet(decision.sources) \subseteq Tags
    /\ Cardinality(SeqToSet(decision.sources)) = Len(decision.sources)

\* the entries of an optional log
EntriesOf(log) == IF log = NoneLog THEN <<>> ELSE log.model_usages

\* C25: _update_usage_log(target, source) is append-only: target's entries
\* afterwards are its previous entries, unchanged and in order, followed by
\* source's entries in source order; source and every other log are left
\* unchanged; with an absent argument nothing changes.
C25_UpdateAppendOnly ==
  [][usage_ops' = Append(usage_ops, "_update_usage_log") =>
       /\ \E i \in DOMAIN logs :
            /\ \A k \in DOMAIN logs \ {i} : logs'[k] = logs[k]
            /\ \E source \in {logs[j] : j \in DOMAIN logs \ {i}} \cup {NoneLog} :
                 /\ logs'[i].model_usages = logs[i].model_usages \o EntriesOf(source)
                 /\ logs'[i].status = logs[i].status
                 /\ logs'[i].message = logs[i].message
                 /\ logs'[i].log_type = logs[i].log_type
       /\ \A i \in DOMAIN logs :
            /\ update_usage_log(logs[i], NoneLog) = logs[i]
            /\ update_usage_log(NoneLog, logs[i]) = NoneLog
            /\ \A j \in DOMAIN logs \ {i} :
                 update_usage_log(logs[i], logs[j]).model_usages
                   = logs[i].model_usages \o logs[j].model_usages
  ]_vars

C25_Witness ==
  /\ usage_ops = <<"add_usage", "add_usage", "_update_usage_log">>
  /\ Len(logs[1].model_usages) = 2
  /\ Len(logs[2].model_usages) = 1
  /\ logs[1].model_usages[1] # logs[1].model_usages[2]
  /\ logs[1].model_usages[2] = logs[2].model_usages[1]
  /\ logs[3].model_usages = <<>>

\* position of a call in the order routing, backend, synthesis
StageRank(c) == IF c = "routing" THEN 1 ELSE IF c = "synthesis" THEN 3 ELSE 2

\* the calls of one request are issued in stage order
CallsInStageOrder ==
  \A i, j \in DOMAIN calls : i < j => StageRank(calls[i]) < StageRank(calls[j])

SynthesisCalls == Len(Filter(calls, {"synthesis"}))

\* every awaited backend call has completed before merge and synthesis
JoinBeforeMerge ==
  /\ ex_pc = "gather" => combined_usage = ChatbotUsageLog
  /\ ex_pc \in {"synthesis", "returned"} =>
       /\ DOMAIN gathered = SeqToSet(async_calls)
       /\ \A n \in DOMAIN gathered : ~gathered[n].raised
  /\ ex_pc # "returned" => SynthesisCalls = 0

\* the usage entries of the synthesis call
SynthesisEntries ==
  IF SynthesisCalls = 1
  THEN chat_completion(synth_http, ChatbotUsageLog, SynthesisModel).usage_log.model_usages
  ELSE <<>>

\* the final log lists routing, then backend, then synthesis entries
FinalLogInStageOrder ==
  (pc = "DONE" /\ ex_pc = "returned") =>
    pipeline.usage_log.model_usages =
      RoutingEntries
      \o merge_gathered(ChatbotUsageLog, async_calls, gathered).model_usages
      \o SynthesisEntries

\* C26 as stated: stages are strictly ordered and the synthesis call is
\* issued exactly once per executor call that passes its precondition.
C26_SynthesisOncePerExecutorCall ==
  /\ CallsInStageOrder
  /\ JoinBeforeMerge
  /\ (ExecEnded /\ ~account_missing(ex_args.account_id)) => SynthesisCalls = 1
  /\ FinalLogInStageOrder

\* C26: the routing call completes before any backend call starts, every
\* backend call has completed before any usage merge or the synthesis call,
\* and the synthesis call is issued at most once: exactly once when every
\* backend call returned and the context serialises, never when a backend
\* call raised; the final usage log lists routing, then backend, then
\* synthesis entries.
C26_StagesStrictlyOrdered ==
  /\ CallsInStageOrder
  /\ JoinBeforeMerge
  /\ SynthesisCalls <= 1
  /\ ex_pc = "returned" =>
       (SynthesisCalls = 1 <=> ~serialize_context_raises(ex_args.context))
  /\ ex_pc = "raised" => SynthesisCalls = 0
  /\ FinalLogInStageOrder

C26_Witness ==
  /\ pc = "DONE"
  /\ calls = <<"routing", "database", "synthesis">>
  /\ Len(RoutingEntries) = 1
  /\ Len(SynthesisEntries) = 1
  /\ Len(pipeline.usage_log.model_usages) = 3

\* the transitions of _run_chat_pipeline's position, none of them backward
PipelineTransitions ==
  {<<"ROUTE", "IMMEDIATE_RETURN">>, <<"ROUTE", "EXECUTE">>, <<"ROUTE", "FAILED">>,
   <<"IMMEDIATE_RETURN", "DONE">>, <<"EXECUTE", "DONE">>, <<"EXECUTE", "FAILED">>}

\* C27: if every routing, backend and synthesis call eventually returns or
\* raises, every call of interact_with_agent eventually returns a response;
\* the orchestrator goes from ROUTE to at most one of IMMEDIATE_RETURN or
\* EXECUTE and ends in DONE or FAILED, never stepping back, and the response
\* is returned only from DONE or FAILED.
C27_InteractEventuallyReturns ==
  /\ (entry = "interact_with_agent") ~> (agent_response # Nothing)
  /\ [][pc' # pc => <<pc, pc'>> \in PipelineTransitions]_vars
  /\ [](agent_response # Nothing => pc \in {"DONE", "FAILED"})
  /\ [][calls' # calls => Len(calls') > Len(calls) /\ CallsInStageOrder']_vars

C27_Witness ==
  /\ entry = "interact_with_agent"
  /\ agent_response # Nothing
  /\ agent_response.success
  /\ pc = "DONE"
  /\ calls = <<"routing", "document", "synthesis">>

\* the executor is running, or has run, on behalf of _run_chat_pipeline
ExecutorUnderPipeline ==
  /\ entry # "_execute_answer_sources"
  /\ ex_pc # "idle"

\* C28: whenever _run_chat_pipeline reaches EXECUTE the decision handed to
\* the executor contains database or document; a decision with only casual
\* carries an immediate answer and returns through IMMEDIATE_RETURN; so an
\* executed result reports exactly one active source and the executor's
\* casual-only path is not reached through the orchestrator.
C28_ExecuteOnlyWithHeavySource ==
  /\ (pc = "EXECUTE" \/ ExecutorUnderPipeline) =>
       /\ decision.immediate = NoneText
       /\ ex_args.answer_sources = decision.sources
       /\ SeqToSet(decision.sources) \cap HeavyTags # {}
       /\ ex_pc \in {"gather", "synthesis", "returned"} => Len(async_calls) = 1
  /\ (decision # Nothing /\ decision.kind = "decision"
        /\ SeqToSet(decision.sources) \subseteq {"casual"}) =>
       /\ decision.immediate # NoneText
       /\ pc \in {"IMMEDIATE_RETURN", "DONE"}
       /\ ex_pc = "idle"
  /\ (ExecutorUnderPipeline /\ pc = "DONE") =>
       /\ Len(pipeline.sources) = 1
       /\ pipeline.sources[1] \in HeavyTags
       /\ pipeline.sources = ex_ret.active_sources

C28_Witness ==
  /\ entry = "_run_chat_pipeline"
  /\ pc = "DONE"
  /\ ExecutorUnderPipeline
  /\ decision.sources = <<"document", "database">>
  /\ pipeline.sources = <<"document">>

\* C29: merging never propagates error status: merging an error log leaves
\* the target's entries, totals, status and message unchanged; so when
\* routing raised and the following EXECUTE succeeds the pipeline's final
\* log has success status and no message, and a result's log has error
\* status only when the swallow handler or the top-level handler made it.
C29_MergeDropsErrorStatus ==
  /\ \A log \in StateLogs \ {NoneLog} :
       \A message \in {ContextError, MissingAccountError} :
         update_usage_log(log, create_error_log(message)) = log
  /\ (RoutingRaised /\ pc = "DONE") =>
       /\ decision.usage_log.status = "error"
       /\ pipeline.usage_log.status = "success"
       /\ pipeline.usage_log.message = NoneStr
  /\ (pipeline # Nothing /\ pipeline.kind = "result"
        /\ pipeline.usage_log.status = "error") =>
       /\ pc = "FAILED"
       /\ pipeline.usage_log = create_error_log(ex_ret.exc)
  /\ (agent_response # Nothing /\ agent_response.usage_logs.status = "error") =>
       \/ pipeline.kind = "raised"
       \/ pc = "FAILED"

C29_Witness ==
  /\ RoutingRaised
  /\ pc = "DONE"
  /\ decision.usage_log = create_error_log(ContextError)
  /\ "document" \in DOMAIN gathered
  /\ gathered["document"].usage.model_usages # <<>>
  /\ pipeline.usage_log.status = "success"
  /\ pipeline.usage_log.model_usages = gathered["document"].usage.model_usages

\* the request went through IMMEDIATE_RETURN
EndedImmediate ==
  /\ pc = "DONE"
  /\ decision # Nothing
  /\ decision.immediate # NoneText

\* C30: every immediate answer returned by the Router is a non-empty,
\* non-blank string (an empty or whitespace-only casual reply is replaced by
\* the fixed apology), so the pipeline never passes an empty immediate answer
\* on and handle_support_chat never returns the escalation response for a
\* request that ended in IMMEDIATE_RETURN.
C30_ImmediateAnswerNeverBlank ==
  /\ (decision # Nothing /\ decision.kind = "decision"
        /\ decision.immediate # NoneText) =>
       /\ Strip(decision.immediate) # <<>>
       /\ Strip(decision.immediate) = decision.immediate
       /\ ProvidedReply = <<>> => decision.immediate = Apology
  /\ EndedImmediate => Strip(pipeline.answer) # <<>>
  /\ (EndedImmediate /\ support_response # Nothing) =>
       /\ ~IsEscalation(support_response)
       /\ support_response.response = decision.immediate

C30_Witness ==
  /\ entry = "handle_support_chat"
  /\ EndedImmediate
  /\ RouteParsed
  /\ Parsed(route_http.content).casual_response = <<" ">>
  /\ decision.immediate = Apology
  /\ support_response # Nothing
  /\ support_response.intent = "general"

====
